---- MODULE Spec2Model ----
(***************************************************************************)
(* Resilience and admission layer of the research gateway:                 *)
(*   RateLimiter and CircuitBreaker (src/tools/cost_tracker/tracker.py)    *)
(*   ResearchTool (src/tools/agent_researcher_tools/research.py)           *)
(* Time is the value time.time() returns, in whole seconds.                *)
(***************************************************************************)
EXTENDS Integers, Sequences, FiniteSets, TLC

\* ------------------------------------------------------------------ bounds
MaxTime == 2
MaxCap == 2
MaxWindow == 2
MaxThreshold == 2
MaxTimeout == 2
MaxFailures == 4
MaxCalls == 2
MaxFetchers == 2
MaxChunks == 1
MaxCredits == 1
ServiceCap == 3

\* ------------------------------------------------------- program constants
CacheTTL == 3600
NoSnapshot == 0

Users == {"u1", "u2"}
Fetchers == 1..MaxFetchers

VARIABLES
    now,             \* time.time()
    requests,        \* RateLimiter._requests : user_id -> list of timestamps
    max_requests,    \* RateLimiter._max_requests
    window_seconds,  \* RateLimiter._window_seconds
    failures,        \* CircuitBreaker._failures
    last_failure,    \* CircuitBreaker._last_failure
    state,           \* CircuitBreaker._state
    threshold,       \* CircuitBreaker._threshold
    timeout,         \* CircuitBreaker._timeout
    admitted,        \* history: per key, the times check returned True at, as far
                     \*          back as the trailing window (now - window, now]
    streak,          \* history: record_failure calls since the last record_success
    opened_at,       \* history: the time of the record_failure call that last opened
                     \*          the breaker
    last_call,       \* history: the last call made directly on the breaker, the state
                     \*          it found, its result
    limiter_call,    \* history: the last call made directly on the limiter, its key,
                     \*          what check returned / what remaining returned
    calls,           \* the Gateway calls: where each coroutine stands, its request
    cache,           \* ResearchTool._cache : key -> {"data", "ts"}
    ready,           \* the event loop's queue of completed executor futures
    cached_usage,    \* UsageTracker._cached: 0 for None, else the snapshot object
    fetchers,        \* the UsageTracker.fetch calls: where each coroutine stands
    usage_lock,      \* UsageTracker._lock is locked
    usage_waiters,   \* UsageTracker._lock: the coroutines waiting for it, in order
    usage_stale,     \* history: the request behind the stored snapshot was in flight
                     \*          when a Gateway operation completed successfully
    usage_clean,     \* history: no forced fetch, failed fetch or clear_cache so far
    usage_data,      \* the fields of the TavilyUsage object last stored in _cached
    queries,         \* the get_remaining / can_use calls: what was asked, the
                     \*          snapshot fetch returned, what the call returned
    lock_log,        \* history: the most locks a call has held at once, and the
                     \*          limiter and breaker locks a call has left locked
    registry,        \* the module globals _rate_limiter, _circuit_breaker and
                     \*          _usage_tracker: 0 for None, else the instance
    api_key,         \* UsageTracker._api_key
    registry_call    \* history: the last registry call, its arguments, the
                     \*          instance it returned

limiterVars == <<requests, max_requests, window_seconds>>
breakerVars == <<failures, last_failure, state, threshold, timeout>>
trackerVars == <<fetchers, usage_lock, usage_waiters, usage_stale, usage_clean,
                 usage_data, queries>>
gatewayVars == <<calls, cache, ready, cached_usage, trackerVars>>
registryVars == <<registry, api_key, registry_call>>
vars == <<now, requests, max_requests, window_seconds, failures, last_failure,
          state, threshold, timeout, admitted, streak, opened_at, last_call,
          limiter_call, calls,
          cache, ready, cached_usage, fetchers, usage_lock, usage_waiters,
          usage_stale, usage_clean, usage_data, queries, lock_log, registry, api_key,
          registry_call>>

\* ------------------------------------------------------------------- locks
\* what a call does to the locks, in order: <<"acquire", lock>>, <<"release", lock>>
RECURSIVE HeldAfter(_, _)
HeldAfter(events, held) ==
    IF events = <<>> THEN held
    ELSE HeldAfter(Tail(events),
                   IF Head(events)[1] = "acquire" THEN held \cup {Head(events)[2]}
                   ELSE held \ {Head(events)[2]})

RECURSIVE PeakHeld(_, _)
PeakHeld(events, held) ==
    IF events = <<>> THEN Cardinality(held)
    ELSE LET rest == PeakHeld(Tail(events), HeldAfter(<<Head(events)>>, held))
         IN IF Cardinality(held) >= rest THEN Cardinality(held) ELSE rest

\* `async with self._lock:` around a body that does not await: the lock is
\* free when the call arrives, taken and released within the step
with_lock(lock) == << <<"acquire", lock>>, <<"release", lock>> >>

\* the log after a call that held the locks `held` has done `events`
logged(events, held) ==
    [peak |-> IF lock_log.peak >= PeakHeld(events, held) THEN lock_log.peak
              ELSE PeakHeld(events, held),
     left |-> lock_log.left \cup (HeldAfter(events, held) \ {"usage"})]

\* ------------------------------------------------------------------- clock
InWindow(ts, t) == SelectSeq(ts, LAMBDA x : x > t - window_seconds)

\* one second passes, at most MaxTime times in a row from time 0 and again
\* after the long wait
Tick ==
    /\ (now % (CacheTTL - 1)) < MaxTime
    /\ now' = now + 1
    /\ admitted' = [u \in Users |-> InWindow(admitted[u], now + 1)]
    /\ UNCHANGED <<limiterVars, breakerVars, streak, opened_at, last_call, gatewayVars>>
    /\ UNCHANGED registryVars
    /\ UNCHANGED limiter_call
    /\ UNCHANGED lock_log

\* ------------------------------------------------------------- RateLimiter
\* mutant: the window closed at both ends, t >= window_start
Prune_inclusive(ts, t) == SelectSeq(ts, LAMBDA x : x >= t - window_seconds)

\* [t for t in self._requests[user_id] if t > window_start]
Prune(ts, t) == SelectSeq(ts, LAMBDA x : x > t - window_seconds)

\* mutant: the cap compared with > instead of >=
check_ok_off_by_one(user_id) == ~(Len(Prune(requests[user_id], now)) > max_requests)

\* RateLimiter.check: what it returns, and the list it leaves behind
check_ok(user_id) == ~(Len(Prune(requests[user_id], now)) >= max_requests)

\* mutant: every key's list pruned by a check of one key
check_requests_all_keys(user_id) ==
    [u \in DOMAIN requests |->
        IF u # user_id THEN Prune(requests[u], now)
        ELSE IF check_ok(user_id) THEN Append(Prune(requests[u], now), now)
        ELSE Prune(requests[u], now)]

\* mutant: the time of the call recorded whatever check returns
check_requests_always(user_id) ==
    [requests EXCEPT ![user_id] = Append(Prune(requests[user_id], now), now)]

check_requests(user_id) ==
    IF check_ok(user_id)
    THEN [requests EXCEPT ![user_id] = Append(Prune(requests[user_id], now), now)]
    ELSE [requests EXCEPT ![user_id] = Prune(requests[user_id], now)]

check_admitted(user_id) ==
    IF check_ok(user_id)
    THEN [admitted EXCEPT ![user_id] = Append(admitted[user_id], now)]
    ELSE admitted

Max(a, b) == IF a >= b THEN a ELSE b

\* mutant: the timestamps counted without pruning the expired ones
remaining_value_unpruned(user_id) == Max(0, max_requests - Len(requests[user_id]))

\* RateLimiter.remaining: what it returns
remaining_value(user_id) == Max(0, max_requests - Len(Prune(requests[user_id], now)))

check(user_id) ==
    /\ requests' = check_requests(user_id)
    /\ admitted' = check_admitted(user_id)
    /\ UNCHANGED <<now, max_requests, window_seconds, breakerVars, streak, opened_at, last_call,
                   gatewayVars>>
    /\ UNCHANGED registryVars
    /\ limiter_call' = [op |-> "check", user |-> user_id, ok |-> check_ok(user_id),
                         value |-> 0]
    /\ lock_log' = logged(with_lock("limiter"), {})

remaining(user_id) ==
    /\ requests' = [requests EXCEPT ![user_id] = Prune(requests[user_id], now)]
    /\ UNCHANGED <<now, max_requests, window_seconds, breakerVars, admitted, streak, opened_at,
                   last_call, gatewayVars>>
    /\ UNCHANGED registryVars
    /\ limiter_call' = [op |-> "remaining", user |-> user_id, ok |-> TRUE,
                         value |-> remaining_value(user_id)]
    /\ lock_log' = logged(with_lock("limiter"), {})

\* ---------------------------------------------------------- CircuitBreaker
\* mutant: the open state left for closed once the timeout has passed
can_execute_state_closes ==
    IF state = "open" /\ now - last_failure >= timeout THEN "closed" ELSE state

\* CircuitBreaker.can_execute: what it returns, and the state it leaves
can_execute_ok ==
    IF state = "closed" THEN TRUE
    ELSE IF state = "open" THEN now - last_failure >= timeout
    ELSE TRUE

can_execute_state ==
    IF state = "open" /\ now - last_failure >= timeout THEN "half-open" ELSE state

\* mutant: record_success resets the count and leaves the state alone
record_success_keeps_state == state

\* mutant: the threshold compared before the count is incremented
record_failure_state_stale == IF failures >= threshold THEN "open" ELSE state

\* mutant: the threshold compared with == instead of >=
record_failure_state_eq == IF failures + 1 = threshold THEN "open" ELSE state

\* CircuitBreaker.record_success / record_failure: the state they leave
record_success_state == "closed"

record_failure_state ==
    IF failures + 1 >= threshold THEN "open" ELSE state

\* mutant: a failure reported while the breaker is already open is not counted
record_failure_count_lost == IF state = "open" THEN failures ELSE failures + 1

\* CircuitBreaker.record_failure: the count it leaves
record_failure_count == failures + 1

\* mutant: the time of a failure reported while the breaker is open not kept
record_failure_time_opening == IF state = "open" THEN last_failure ELSE now

\* CircuitBreaker.record_failure: self._last_failure = time.time()
record_failure_time == now

\* the three calls as they act on the breaker, whoever makes them
breaker_can_execute ==
    /\ state' = can_execute_state
    /\ UNCHANGED <<failures, last_failure, threshold, timeout, streak, opened_at>>

breaker_record_success ==
    /\ failures' = 0
    /\ state' = record_success_state
    /\ streak' = 0
    /\ UNCHANGED <<last_failure, threshold, timeout, opened_at>>

breaker_record_failure ==
    /\ failures' = record_failure_count
    /\ last_failure' = record_failure_time
    /\ state' = record_failure_state
    /\ streak' = streak + 1
    /\ opened_at' = IF state # "open" /\ record_failure_state = "open" THEN now
                    ELSE opened_at
    /\ UNCHANGED <<threshold, timeout>>

breaker_untouched == UNCHANGED <<breakerVars, streak, opened_at>>

\* the three calls made directly on a CircuitBreaker
can_execute ==
    /\ breaker_can_execute
    /\ last_call' = [op |-> "can_execute", from |-> state, ok |-> can_execute_ok]
    /\ UNCHANGED <<now, limiterVars, admitted, gatewayVars>>
    /\ UNCHANGED registryVars
    /\ UNCHANGED limiter_call
    /\ lock_log' = logged(with_lock("breaker"), {})

record_success ==
    /\ breaker_record_success
    /\ last_call' = [op |-> "record_success", from |-> state, ok |-> TRUE]
    /\ UNCHANGED <<now, limiterVars, admitted, gatewayVars>>
    /\ UNCHANGED registryVars
    /\ UNCHANGED limiter_call
    /\ lock_log' = logged(with_lock("breaker"), {})

record_failure ==
    /\ failures < MaxFailures
    /\ breaker_record_failure
    /\ last_call' = [op |-> "record_failure", from |-> state, ok |-> TRUE]
    /\ UNCHANGED <<now, limiterVars, admitted, gatewayVars>>
    /\ UNCHANGED registryVars
    /\ UNCHANGED limiter_call
    /\ lock_log' = logged(with_lock("breaker"), {})

\* ------------------------------------------------------------ ResearchTool
MaxWorkers == 4
MaxAttempts == 3
MaxQueryLen == 10000
MaxResultsLimit == 50
GatewayWindow == 60
RetryMultiplier == 1
RetryWaitMin == 2
RetryWaitMax == 10
MaxUrls == 20
DefaultMaxResults == 10

Calls == 1..MaxCalls
Ops == {"research", "search"}
AllOps == {"research", "search", "extract", "get_context", "qna"}
RawQueries == {<<"x">>, <<" ", "x">>, <<" ">>}
MaxResultsInputs == {10}

\* ResearchModel values / the search_depth pattern
Variants(op) == IF op = "research" THEN {"mini", "pro", "auto"} ELSE {"basic", "advanced"}

\* the values the calls are made with
ModelInputs == {"mini", "pro"}
DepthInputs == {"advanced"}
GatewayUsers == {"u1"}

\* str.strip()
RECURSIVE StripLeft(_)
StripLeft(q) ==
    IF q = <<>> THEN q
    ELSE IF Head(q) = " " THEN StripLeft(Tail(q)) ELSE q

RECURSIVE StripRight(_)
StripRight(q) ==
    IF q = <<>> THEN q
    ELSE IF q[Len(q)] = " " THEN StripRight(SubSeq(q, 1, Len(q) - 1)) ELSE q

Strip(q) == StripRight(StripLeft(q))

\* mutant: the upper bound of max_results not enforced
request_valid_no_upper(op, raw, variant, max_results) ==
    /\ Strip(raw) # <<>>
    /\ Len(raw) <= MaxQueryLen
    /\ variant \in Variants(op)
    /\ max_results >= 1

\* ResearchRequest / SearchRequest validation
request_valid(op, raw, variant, max_results) ==
    /\ Strip(raw) # <<>>
    /\ Len(raw) <= MaxQueryLen
    /\ variant \in Variants(op)
    /\ max_results >= 1
    /\ max_results <= MaxResultsLimit

\* the validated request: the query stripped
make_request(raw, variant, max_results) ==
    [query |-> Strip(raw), variant |-> variant, max_results |-> max_results]

NoReq == [query |-> <<>>, variant |-> "-", max_results |-> 0]

\* str.startswith
startswith(s, prefix) ==
    Len(s) >= Len(prefix) /\ SubSeq(s, 1, Len(prefix)) = prefix

HttpPrefix == <<"h", "t", "t", "p", ":", "/", "/">>
HttpsPrefix == <<"h", "t", "t", "p", "s", ":", "/", "/">>

\* ExtractRequest validation: 1 to 20 urls, each http:// or https://
extract_valid(urls) ==
    /\ Len(urls) >= 1
    /\ Len(urls) <= MaxUrls
    /\ \A i \in 1..Len(urls) :
          startswith(urls[i], HttpPrefix) \/ startswith(urls[i], HttpsPrefix)

\* ExtractRequest(urls=urls, include_images=False): the urls as given
make_extract_request(urls) == [query |-> urls, variant |-> "-", max_results |-> 0]

\* get_context / qna: not query or not query.strip()
query_valid(raw) == raw # <<>> /\ Strip(raw) # <<>>

\* get_context / qna pass the query on as given
make_query_request(raw) == [query |-> raw, variant |-> "-", max_results |-> 0]

\* _cache_key("research", query=, model=) / _cache_key("search", query=, depth=);
\* sha256 of the prefix and the sorted items, taken to be collision free
cache_key(op, req) == <<op, req.query, req.variant>>

\* the keys of the research and search requests, and those get_context
\* requests would have
Keys ==
    UNION {{cache_key(op, make_request(raw, v, 10)) :
               raw \in {q \in RawQueries : Strip(q) # <<>>}, v \in Variants(op)} :
           op \in Ops}
    \cup {cache_key("get_context", make_query_request(raw)) :
               raw \in {q \in RawQueries : Strip(q) # <<>>}}

NoEntry == [present |-> FALSE, ts |-> 0, req |-> NoReq]

\* mutant: an entry exactly one TTL old still served
get_cached_inclusive(key) == cache[key].present /\ now - cache[key].ts <= CacheTTL

\* ResearchTool._get_cached: is there an entry younger than the TTL
get_cached(key) == cache[key].present /\ now - cache[key].ts < CacheTTL

\* ResearchTool._set_cached
set_cached(key, req) ==
    [cache EXCEPT ![key] = [present |-> TRUE, ts |-> now, req |-> req]]

\* outcomes counts the record_success and record_failure calls the call has
\* made, chunks the chunks its stream has yielded; abandoned: the awaiting
\* caller was cancelled
IdleCall == [pc |-> "idle", op |-> "-", user |-> "-", req |-> NoReq,
             attempts |-> 0, wake |-> 0, upstream |-> "-", result |-> "-",
             cached |-> FALSE, outcomes |-> 0, chunks |-> 0, abandoned |-> FALSE]

Returned(c, op, user, req, result, flag) ==
    [calls EXCEPT ![c] = [IdleCall EXCEPT !.pc = "returned", !.op = op, !.user = user,
                                          !.req = req, !.result = result,
                                          !.cached = flag]]

\* research_stream iterates the upstream stream in the coroutine itself: while
\* a chunk is awaited from upstream the event loop runs nothing else
loop_blocked == \E c \in DOMAIN calls : calls[c].pc = "pulling"

\* mutant: the limiter asked whatever the breaker answered
check_limits_requests_always(user) == check_requests(user)

\* mutant: the limiter's answer not looked at
check_limits_result_unlimited(user) ==
    IF ~can_execute_ok THEN "circuit_open" ELSE "admitted"

\* ResearchTool._check_limits: the breaker is asked first, the limiter only if
\* the breaker lets the call through
check_limits_result(user) ==
    IF ~can_execute_ok THEN "circuit_open"
    ELSE IF ~check_ok(user) THEN "rate_limited"
    ELSE "admitted"

check_limits_requests(user) ==
    IF ~can_execute_ok THEN requests ELSE check_requests(user)

check_limits_admitted(user) ==
    IF ~can_execute_ok THEN admitted ELSE check_admitted(user)

\* mutant: the limiter asked while the breaker's lock is still held
check_limits_locks_nested(user) ==
    IF ~can_execute_ok THEN with_lock("breaker")
    ELSE << <<"acquire", "breaker">>, <<"acquire", "limiter">>,
            <<"release", "limiter">>, <<"release", "breaker">> >>

\* _check_limits: can_execute takes and releases the breaker's lock, then
\* check takes and releases the limiter's
check_limits_locks(user) ==
    IF ~can_execute_ok THEN with_lock("breaker")
    ELSE with_lock("breaker") \o with_lock("limiter")

\* mutant: the breaker told of a failure when the limiter rejects the call
rejected_breaker_failure(user) ==
    IF check_limits_result(user) = "rate_limited"
    THEN /\ breaker_record_failure
    ELSE /\ breaker_can_execute

\* the breaker as _check_limits leaves it: only can_execute is called on it
check_limits_breaker(user) == breaker_can_execute

\* mutant: the usage snapshot cleared before the cache is looked up
hit_cached_usage_cleared == NoSnapshot

\* the usage snapshot as a cache hit leaves it: the hit returns before clear_cache
hit_cached_usage == cached_usage

\* mutant: get_context looked up and stored as research and search are
cached_op_context(op) == op \in Ops \cup {"get_context"}

\* research and search look the result up in the cache, the others do not
cached_op(op) == op \in Ops

\* a public operation up to the await on run_in_executor: validation,
\* _check_limits (breaker, then limiter), the cache lookup, the submission
admit(c, op, user, valid, req) ==
    /\ calls[c].pc = "idle"
    /\ ~loop_blocked
    /\ \A b \in DOMAIN calls : b < c => calls[b].pc # "idle"
    /\ UNCHANGED <<now, max_requests, window_seconds, ready, trackerVars, last_call, cache>>
    /\ IF ~valid
       THEN /\ calls' = Returned(c, "-", "-", NoReq, "validation_error", FALSE)
            /\ breaker_untouched
            /\ UNCHANGED <<requests, admitted, cached_usage>>
       ELSE /\ check_limits_breaker(user)
            /\ cached_usage' =
                 IF /\ check_limits_result(user) = "admitted"
                    /\ cached_op(op)
                    /\ get_cached(cache_key(op, req))
                 THEN hit_cached_usage
                 ELSE cached_usage
            /\ requests' = check_limits_requests(user)
            /\ admitted' = check_limits_admitted(user)
            /\ calls' =
                 IF check_limits_result(user) # "admitted"
                 THEN Returned(c, op, user, NoReq, check_limits_result(user), FALSE)
                 ELSE IF cached_op(op) /\ get_cached(cache_key(op, req))
                 THEN Returned(c, op, user, req, "hit", TRUE)
                 ELSE [calls EXCEPT ![c] =
                         [IdleCall EXCEPT !.pc = "queued", !.op = op,
                                          !.user = user, !.req = req]]
    /\ UNCHANGED registryVars
    /\ UNCHANGED limiter_call
    /\ lock_log' = IF valid THEN logged(check_limits_locks(user), {}) ELSE lock_log

start(c, op, user, raw, variant, max_results) ==
    /\ calls[c].pc = "idle"
    /\ admit(c, op, user, request_valid(op, raw, variant, max_results),
             make_request(raw, variant, max_results))

research(c, user, raw, model, max_results) ==
    start(c, "research", user, raw, model, max_results)

search(c, user, raw, depth, max_results) ==
    start(c, "search", user, raw, depth, max_results)

extract(c, user, urls) ==
    /\ calls[c].pc = "idle"
    /\ admit(c, "extract", user, extract_valid(urls), make_extract_request(urls))

get_context(c, user, raw) ==
    /\ calls[c].pc = "idle"
    /\ admit(c, "get_context", user, query_valid(raw), make_query_request(raw))

qna(c, user, raw) ==
    /\ calls[c].pc = "idle"
    /\ admit(c, "qna", user, query_valid(raw), make_query_request(raw))

\* research_stream up to the await on run_in_executor, entered when the
\* consumer asks for the first chunk: ResearchRequest(query, model), then
\* _check_limits, then the submission of the call that opens the stream
research_stream(c, user, raw, model) ==
    /\ calls[c].pc = "idle"
    /\ admit(c, "research_stream", user,
             request_valid("research", raw, model, DefaultMaxResults),
             make_request(raw, model, DefaultMaxResults))

\* ThreadPoolExecutor(max_workers=4): a free worker takes the submitted call
worker_takes(c) ==
    /\ calls[c].pc = "queued"
    /\ Cardinality({b \in DOMAIN calls : calls[b].pc = "running"}) < MaxWorkers
    /\ calls' = [calls EXCEPT ![c].pc = "running"]
    /\ breaker_untouched
    /\ UNCHANGED <<now, limiterVars, admitted, cache, ready, cached_usage, trackerVars,
                   last_call>>
    /\ UNCHANGED registryVars
    /\ UNCHANGED limiter_call
    /\ UNCHANGED lock_log

Min(a, b) == IF a <= b THEN a ELSE b

RECURSIVE Pow2(_)
Pow2(n) == IF n <= 0 THEN 1 ELSE 2 * Pow2(n - 1)

\* tenacity wait_exponential(multiplier=1, min=2, max=10) after attempt
\* attempt_number: max(max(0, min), min(multiplier * 2 ** (attempt_number - 1), max))
wait_exponential(attempt_number) ==
    Max(Max(0, RetryWaitMin),
        Min(RetryMultiplier * Pow2(attempt_number - 1), RetryWaitMax))

\* _research_sync, _search_sync and _extract_sync carry @retry; get_context and
\* qna hand a bare lambda to the executor
retry_wrapped(op) == op \in {"research", "search", "extract"}

\* mutant: every exception retried, not only ConnectionError and TimeoutError
should_retry_any(op, outcome, attempt_number) ==
    retry_wrapped(op) /\ outcome # "ok" /\ attempt_number < MaxAttempts

\* mutant: the stop condition off by one, a fourth attempt made
should_retry_fourth(op, outcome, attempt_number) ==
    retry_wrapped(op) /\ outcome = "transient" /\ attempt_number <= MaxAttempts

\* @retry(stop_after_attempt(3), retry_if_exception_type((ConnectionError,
\* TimeoutError)), reraise=True): is the failed attempt followed by another
should_retry(op, outcome, attempt_number) ==
    retry_wrapped(op) /\ outcome = "transient" /\ attempt_number < MaxAttempts

\* mutant: cancelling the caller stops the call the worker is running
abandon_pc_stops(c) == "returned"

\* where cancelling the caller leaves the submitted call: Future.cancel()
\* succeeds on a call no worker has taken, and on a finished one the result is
\* dropped; a call a worker is running cannot be cancelled and runs on
abandon_pc(c) == IF calls[c].pc = "running" THEN "running" ELSE "returned"

\* the caller awaiting run_in_executor is cancelled: CancelledError is raised
\* at the await, and being no Exception it passes the except clause
abandon(c) ==
    /\ calls[c].pc \in {"queued", "running", "done"}
    /\ ~calls[c].abandoned
    /\ ~loop_blocked
    /\ calls' = [calls EXCEPT ![c] =
          [@ EXCEPT !.pc = abandon_pc(c), !.result = "cancelled", !.abandoned = TRUE]]
    /\ ready' = SelectSeq(ready, LAMBDA b : b # c)
    /\ breaker_untouched
    /\ UNCHANGED <<now, limiterVars, admitted, cache, cached_usage, trackerVars, last_call>>
    /\ UNCHANGED registryVars
    /\ UNCHANGED limiter_call
    /\ UNCHANGED lock_log

\* one upstream attempt of the call the worker runs; after a failed attempt
\* that is retried the worker sleeps wait_exponential seconds; the result of a
\* call whose caller was cancelled is dropped when the worker is through
sync_attempt(c, outcome) ==
    /\ calls[c].pc = "running"
    /\ now >= calls[c].wake
    /\ LET n == calls[c].attempts + 1
           again == outcome # "ok" /\ should_retry(calls[c].op, outcome, n)
       IN calls' = [calls EXCEPT ![c] =
            [@ EXCEPT !.attempts = n,
                      !.pc = IF again THEN "running"
                             ELSE IF calls[c].abandoned THEN "returned" ELSE "done",
                      !.upstream = IF outcome = "ok" THEN "ok"
                                   ELSE IF again THEN "-" ELSE "error",
                      !.wake = IF again THEN now + wait_exponential(n) ELSE 0]]
    /\ ready' = IF calls'[c].pc = "done" THEN Append(ready, c) ELSE ready
    /\ breaker_untouched
    /\ UNCHANGED <<now, limiterVars, admitted, cache, cached_usage, trackerVars, last_call>>
    /\ UNCHANGED registryVars
    /\ UNCHANGED limiter_call
    /\ UNCHANGED lock_log

\* mutant: the usage snapshot kept on success
clear_cache_kept == cached_usage

\* UsageTracker.clear_cache: self._cached = None
clear_cache == NoSnapshot

\* history: the usage requests in flight when an operation completes successfully
clear_cache_marks ==
    [f \in DOMAIN fetchers |->
        IF fetchers[f].pc = "requesting"
        THEN [fetchers[f] EXCEPT !.early = TRUE]
        ELSE fetchers[f]]

\* the usage tracker as a successful operation leaves it: clear_cache is called
\* without the tracker's lock
success_clears_usage ==
    /\ cached_usage' = clear_cache
    /\ fetchers' = clear_cache_marks
    /\ usage_stale' = FALSE
    /\ usage_clean' = FALSE
    /\ UNCHANGED <<usage_lock, usage_waiters, usage_data, queries>>

\* the cache as the success path leaves it: research and search store the result
resume_cache(c) ==
    IF cached_op(calls[c].op)
    THEN set_cached(cache_key(calls[c].op, calls[c].req), calls[c].req)
    ELSE cache

\* mutant: the except path stores what the success path would have stored
failure_cache_stored(c) == resume_cache(c)

\* the cache as the except path leaves it: nothing is stored
failure_cache(c) == cache

\* the call as the code after the await leaves it
Completed(c, result) ==
    [Returned(c, calls[c].op, calls[c].user, calls[c].req, result, FALSE)
       EXCEPT ![c].attempts = calls[c].attempts, ![c].chunks = calls[c].chunks,
              ![c].outcomes = calls[c].outcomes + 1]

\* a public operation after the await: the success path and the except path;
\* the loop wakes the coroutines in the order their futures completed; the
\* returned record keeps the number of upstream attempts the call took;
\* research_stream, its stream opened, goes on to ask it for the first chunk
resume(c) ==
    /\ calls[c].pc = "done"
    /\ ~loop_blocked
    /\ ready # <<>>
    /\ Head(ready) = c
    /\ ready' = Tail(ready)
    /\ UNCHANGED <<now, limiterVars, admitted, last_call>>
    /\ IF calls[c].upstream = "ok" /\ calls[c].op = "research_stream"
       THEN /\ calls' = [calls EXCEPT ![c].pc = "pulling"]
            /\ breaker_untouched
            /\ UNCHANGED <<cache, cached_usage, trackerVars>>
       ELSE IF calls[c].upstream = "ok"
       THEN /\ cache' = resume_cache(c)
            /\ success_clears_usage
            /\ breaker_record_success
            /\ calls' = Completed(c, "ok")
       ELSE /\ breaker_record_failure
            /\ calls' = Completed(c, "error")
            /\ cache' = failure_cache(c)
            /\ UNCHANGED <<cached_usage, trackerVars>>
    /\ UNCHANGED registryVars
    /\ UNCHANGED limiter_call
    /\ lock_log' = IF calls[c].upstream = "ok" /\ calls[c].op = "research_stream"
                   THEN lock_log ELSE logged(with_lock("breaker"), {})

\* `for chunk in stream`, run by the coroutine on the event loop's thread: the
\* stream hands over a chunk, which is yielded to the consumer, or ends
\* (clear_cache, record_success), or raises (record_failure, ResearchToolError)
pulled(c, event) ==
    /\ calls[c].pc = "pulling"
    /\ UNCHANGED <<now, limiterVars, admitted, last_call, cache, ready>>
    /\ IF event = "chunk"
       THEN /\ calls[c].chunks < MaxChunks
            /\ calls' = [calls EXCEPT ![c].pc = "yielded", ![c].chunks = @ + 1]
            /\ breaker_untouched
            /\ UNCHANGED <<cached_usage, trackerVars>>
       ELSE IF event = "end"
       THEN /\ success_clears_usage
            /\ breaker_record_success
            /\ calls' = Completed(c, "ok")
       ELSE /\ breaker_record_failure
            /\ calls' = Completed(c, "error")
            /\ UNCHANGED <<cached_usage, trackerVars>>
    /\ UNCHANGED registryVars
    /\ UNCHANGED limiter_call
    /\ lock_log' = IF event = "chunk" THEN lock_log
                   ELSE logged(with_lock("breaker"), {})

\* the consumer asks the generator for the next chunk
stream_next(c) ==
    /\ calls[c].pc = "yielded"
    /\ ~loop_blocked
    /\ calls' = [calls EXCEPT ![c].pc = "pulling"]
    /\ breaker_untouched
    /\ UNCHANGED <<now, limiterVars, admitted, cache, ready, cached_usage, trackerVars,
                   last_call>>
    /\ UNCHANGED registryVars
    /\ UNCHANGED limiter_call
    /\ UNCHANGED lock_log

\* the consumer stops iterating and the generator is closed: GeneratorExit is
\* raised at the yield, and being no Exception it passes the except clause
stream_close(c) ==
    /\ calls[c].pc = "yielded"
    /\ ~loop_blocked
    /\ calls' = [Returned(c, calls[c].op, calls[c].user, calls[c].req, "closed", FALSE)
                   EXCEPT ![c].attempts = calls[c].attempts,
                          ![c].chunks = calls[c].chunks]
    /\ breaker_untouched
    /\ UNCHANGED <<now, limiterVars, admitted, cache, ready, cached_usage, trackerVars,
                   last_call>>
    /\ UNCHANGED registryVars
    /\ UNCHANGED limiter_call
    /\ UNCHANGED lock_log

\* the caller has taken the result or the error; it may call again
release(c) ==
    /\ calls[c].pc = "returned"
    /\ ~loop_blocked
    /\ calls' = [calls EXCEPT ![c] = IdleCall]
    /\ breaker_untouched
    /\ UNCHANGED <<now, limiterVars, admitted, cache, ready, cached_usage, trackerVars,
                   last_call>>
    /\ UNCHANGED registryVars
    /\ UNCHANGED limiter_call
    /\ UNCHANGED lock_log

\* ------------------------------------------------------------ UsageTracker
IdleFetch == [pc |-> "idle", force |-> FALSE, result |-> NoSnapshot, early |-> FALSE]

\* the fields of a TavilyUsage the remaining credits are computed from; a reply
\* without them is parsed into zeros (data.get(..., 0))
EmptyReply == [key_usage |-> 0, key_limit |-> 0, plan_usage |-> 0, plan_limit |-> 0,
               paygo_usage |-> 0, paygo_limit |-> 0]

\* mutant: the difference returned as it is
key_remaining_unclamped(data) == data.key_limit - data.key_usage

\* KeyUsage.remaining, AccountUsage.plan_remaining, AccountUsage.paygo_remaining
key_remaining(data) == Max(0, data.key_limit - data.key_usage)

plan_remaining(data) == Max(0, data.plan_limit - data.plan_usage)

paygo_remaining(data) == Max(0, data.paygo_limit - data.paygo_usage)

\* UsageTracker.get_remaining / can_use: what they return for the snapshot
\* fetch has returned
get_remaining_value(data) ==
    [key_remaining |-> key_remaining(data), plan_remaining |-> plan_remaining(data),
     paygo_remaining |-> paygo_remaining(data)]

can_use_value(data, count) == ~(key_remaining(data) < count)

NoRemaining == [key_remaining |-> 0, plan_remaining |-> 0, paygo_remaining |-> 0]

\* a call of fetch itself: nothing is computed from the snapshot
IdleQuery == [want |-> "fetch", count |-> 0, snapshot |-> EmptyReply,
              remaining |-> NoRemaining, allowed |-> FALSE]

NewQuery(want, count) == [IdleQuery EXCEPT !.want = want, !.count = count]

\* the call once `usage = await self.fetch()` has returned the snapshot `data`
Answered(q, data) ==
    IF q.want = "get_remaining"
    THEN [q EXCEPT !.snapshot = data, !.remaining = get_remaining_value(data)]
    ELSE IF q.want = "can_use"
    THEN [q EXCEPT !.snapshot = data, !.allowed = can_use_value(data, q.count)]
    ELSE q

\* the TavilyUsage object a reply is parsed into: a new object, told from the
\* stored one and from those the callers still hold by the least unused number
NewSnapshot ==
    CHOOSE n \in 1..(Cardinality(DOMAIN fetchers) + 2) :
        /\ n # cached_usage
        /\ \A f \in DOMAIN fetchers : fetchers[f].result # n
        /\ \A m \in 1..(n - 1) :
              m = cached_usage \/ \E f \in DOMAIN fetchers : fetchers[f].result = m

\* mutant: the lock not looked at
lock_free_always == TRUE

\* asyncio.Lock.acquire returns at once when the lock is free and nobody waits
lock_free == ~usage_lock /\ usage_waiters = <<>>

\* mutant: the stored snapshot returned also when the fetch is forced
use_cached_forced(force) == cached_usage # NoSnapshot

\* fetch: `if self._cached and not force: return self._cached`
use_cached(force) == cached_usage # NoSnapshot /\ ~force

\* fetch: the lock is released on the return of the stored snapshot and kept
\* across the await on the usage request
fetch_locks(force) ==
    IF use_cached(force) THEN with_lock("usage") ELSE << <<"acquire", "usage">> >>

\* UsageTracker.fetch with the lock just acquired, up to the await on the usage
\* request: the stored snapshot returned and the lock released, or the request
\* sent and the lock kept
fetch_locked(f, force) ==
    /\ fetchers' = [fetchers EXCEPT ![f] =
         IF use_cached(force)
         THEN [IdleFetch EXCEPT !.pc = "returned", !.force = force,
                                !.result = cached_usage]
         ELSE [IdleFetch EXCEPT !.pc = "requesting", !.force = force]]
    /\ usage_lock' = ~use_cached(force)
    /\ usage_clean' = (usage_clean /\ ~force)
    /\ UNCHANGED <<cached_usage, usage_stale, usage_data>>

\* UsageTracker.fetch is called, by its caller or by get_remaining / can_use
\* (`usage = await self.fetch()`): `async with self._lock` enters at once or
\* waits; with the stored snapshot returned the caller computes its answer
usage_call(f, force, want, count) ==
    /\ fetchers[f].pc \in {"idle", "returned", "raised"}
    /\ ~loop_blocked
    /\ IF lock_free
       THEN /\ fetch_locked(f, force)
            /\ queries' = [queries EXCEPT ![f] =
                 IF use_cached(force) THEN Answered(NewQuery(want, count), usage_data)
                 ELSE NewQuery(want, count)]
            /\ UNCHANGED usage_waiters
       ELSE /\ fetchers' = [fetchers EXCEPT ![f] =
                 [IdleFetch EXCEPT !.pc = "waiting", !.force = force]]
            /\ queries' = [queries EXCEPT ![f] = NewQuery(want, count)]
            /\ usage_waiters' = Append(usage_waiters, f)
            /\ UNCHANGED <<cached_usage, usage_lock, usage_stale, usage_clean,
                           usage_data>>
    /\ breaker_untouched
    /\ UNCHANGED <<now, limiterVars, admitted, calls, cache, ready, last_call>>
    /\ UNCHANGED registryVars
    /\ UNCHANGED limiter_call
    /\ lock_log' = IF lock_free THEN logged(fetch_locks(force), {}) ELSE lock_log

fetch(f, force) ==
    /\ f \in DOMAIN fetchers
    /\ usage_call(f, force, "fetch", 0)

\* UsageTracker.get_remaining
get_remaining(f) ==
    /\ f \in DOMAIN fetchers
    /\ usage_call(f, FALSE, "get_remaining", 0)

\* UsageTracker.can_use(operation, count); the operation is only logged
can_use(f, count) ==
    /\ f \in DOMAIN fetchers
    /\ usage_call(f, FALSE, "can_use", count)

\* the lock was released and the first waiter wakes up holding it
lock_granted(f) ==
    /\ ~loop_blocked
    /\ ~usage_lock
    /\ usage_waiters # <<>>
    /\ Head(usage_waiters) = f
    /\ usage_waiters' = Tail(usage_waiters)
    /\ fetch_locked(f, fetchers[f].force)
    /\ queries' = [queries EXCEPT ![f] =
         IF use_cached(fetchers[f].force) THEN Answered(queries[f], usage_data)
         ELSE queries[f]]
    /\ breaker_untouched
    /\ UNCHANGED <<now, limiterVars, admitted, calls, cache, ready, last_call>>
    /\ UNCHANGED registryVars
    /\ UNCHANGED limiter_call
    /\ lock_log' = logged(fetch_locks(fetchers[f].force), {})

\* mutant: the stored snapshot dropped when the request fails
failed_fetch_cached_dropped == NoSnapshot

\* fetch: client.get or raise_for_status raises before self._cached is assigned
failed_fetch_cached == cached_usage

\* UsageTracker.fetch after the await: the reply `data` parsed and stored, or
\* client.get / raise_for_status raises; the lock is released either way
fetch_reply(f, ok, data) ==
    /\ fetchers[f].pc = "requesting"
    /\ ~loop_blocked
    /\ fetchers' = [fetchers EXCEPT ![f] =
         IF ok THEN [IdleFetch EXCEPT !.pc = "returned", !.force = fetchers[f].force,
                                      !.result = NewSnapshot]
         ELSE [IdleFetch EXCEPT !.pc = "raised", !.force = fetchers[f].force]]
    /\ cached_usage' = IF ok THEN NewSnapshot ELSE failed_fetch_cached
    /\ usage_data' = IF ok THEN data ELSE usage_data
    /\ queries' = [queries EXCEPT ![f] = IF ok THEN Answered(queries[f], data)
                                         ELSE queries[f]]
    /\ usage_stale' = IF ok THEN fetchers[f].early ELSE usage_stale
    /\ usage_clean' = (usage_clean /\ ok)
    /\ usage_lock' = FALSE
    /\ breaker_untouched
    /\ UNCHANGED <<now, limiterVars, admitted, calls, cache, ready, usage_waiters,
                   last_call>>
    /\ UNCHANGED registryVars
    /\ UNCHANGED limiter_call
    /\ lock_log' = logged(<< <<"release", "usage">> >>, {"usage"})

\* the cache TTL, less one second, passes at once
LongWait ==
    /\ now < CacheTTL - 1
    /\ now' = now + CacheTTL - 1
    /\ admitted' = [u \in Users |-> InWindow(admitted[u], now + CacheTTL - 1)]
    /\ UNCHANGED <<limiterVars, breakerVars, streak, opened_at, last_call, gatewayVars>>
    /\ UNCHANGED registryVars
    /\ UNCHANGED limiter_call
    /\ UNCHANGED lock_log

\* -------------------------------------------------------------- registries
NoInstance == 0
FirstInstance == 1
ApiKeys == {"k1", "k2"}
NoRegistryCall == [fn |-> "none", args |-> <<>>, instance |-> NoInstance]

\* mutant: an instance constructed by every call
create_instance_always(fn) == TRUE

\* `if _rate_limiter is None:` and the like: the first call constructs
create_instance(fn) == registry[fn] = NoInstance

\* the instance the module global refers to once the call has run
registered(fn) == IF create_instance(fn) THEN registry[fn] + 1 ELSE registry[fn]

get_rate_limiter(max, window) ==
    /\ IF create_instance("rate_limiter")
       THEN /\ max_requests' = max
            /\ window_seconds' = window
            /\ requests' = [u \in Users |-> <<>>]
            /\ admitted' = [u \in Users |-> <<>>]
       ELSE UNCHANGED <<limiterVars, admitted>>
    /\ registry' = [registry EXCEPT !.rate_limiter = registered("rate_limiter")]
    /\ registry_call' = [fn |-> "rate_limiter", args |-> <<max, window>>,
                         instance |-> registered("rate_limiter")]
    /\ UNCHANGED <<now, breakerVars, streak, opened_at, last_call, limiter_call,
                   gatewayVars, api_key, lock_log>>

get_circuit_breaker(failure_threshold, reset_timeout) ==
    /\ IF create_instance("circuit_breaker")
       THEN /\ threshold' = failure_threshold
            /\ timeout' = reset_timeout
            /\ failures' = 0
            /\ last_failure' = 0
            /\ state' = "closed"
            /\ streak' = 0
            /\ opened_at' = 0
       ELSE UNCHANGED <<breakerVars, streak, opened_at>>
    /\ registry' = [registry EXCEPT !.circuit_breaker = registered("circuit_breaker")]
    /\ registry_call' = [fn |-> "circuit_breaker",
                         args |-> <<failure_threshold, reset_timeout>>,
                         instance |-> registered("circuit_breaker")]
    /\ UNCHANGED <<now, limiterVars, admitted, last_call, limiter_call, gatewayVars,
                   api_key, lock_log>>

get_usage_tracker(key) ==
    /\ IF create_instance("usage_tracker")
       THEN /\ api_key' = key
            /\ cached_usage' = NoSnapshot
            /\ usage_lock' = FALSE
            /\ usage_waiters' = <<>>
       ELSE UNCHANGED <<api_key, cached_usage, usage_lock, usage_waiters>>
    /\ registry' = [registry EXCEPT !.usage_tracker = registered("usage_tracker")]
    /\ registry_call' = [fn |-> "usage_tracker", args |-> <<key>>,
                         instance |-> registered("usage_tracker")]
    /\ UNCHANGED <<now, limiterVars, breakerVars, admitted, streak, opened_at, last_call,
                   limiter_call, calls, cache, ready, fetchers, usage_stale, usage_clean,
                   usage_data, queries, lock_log>>

\* ----------------------------------------------------------- initial state
NoCall == [op |-> "none", from |-> "closed", ok |-> TRUE]
NoLimiterCall == [op |-> "none", user |-> "-", ok |-> TRUE, value |-> 0]

\* everything but the callers and the four constructor arguments
InitTools ==
    /\ now = 0
    /\ requests = [u \in Users |-> <<>>]
    /\ failures = 0
    /\ last_failure = 0
    /\ state = "closed"
    /\ admitted = [u \in Users |-> <<>>]
    /\ streak = 0
    /\ opened_at = 0
    /\ last_call = NoCall
    /\ limiter_call = NoLimiterCall
    /\ cache = [k \in Keys |-> NoEntry]
    /\ ready = <<>>
    /\ cached_usage = NoSnapshot
    /\ fetchers = [f \in Fetchers |-> IdleFetch]
    /\ usage_lock = FALSE
    /\ usage_waiters = <<>>
    /\ usage_data = EmptyReply
    /\ queries = [f \in Fetchers |-> IdleQuery]
    /\ usage_stale = FALSE
    /\ usage_clean = TRUE
    /\ lock_log = [peak |-> 0, left |-> {}]

\* ResearchTool.__init__ has taken the three instances from the registries
Registered ==
    /\ registry = [rate_limiter |-> FirstInstance, circuit_breaker |-> FirstInstance,
                   usage_tracker |-> FirstInstance]
    /\ api_key = "k1"
    /\ registry_call = NoRegistryCall

InitState ==
    /\ InitTools
    /\ Registered
    /\ calls = [c \in Calls |-> IdleCall]

Init ==
    /\ InitState
    /\ max_requests \in 0..MaxCap
    /\ window_seconds \in (1..MaxWindow) \cup {GatewayWindow}
    /\ threshold \in 1..MaxThreshold
    /\ timeout \in 1..MaxTimeout

\* RateLimiter alone: any sequence of check and remaining calls on any keys
InitLimiter == Init /\ window_seconds <= MaxWindow /\ threshold = 1 /\ timeout = 1

NextLimiter ==
    \/ Tick
    \/ \E u \in Users : check(u)
    \/ \E u \in Users : remaining(u)

SpecLimiter == InitLimiter /\ [][NextLimiter]_vars

\* CircuitBreaker alone: any sequence of its three calls
InitBreaker == Init /\ max_requests = 1 /\ window_seconds = 1

NextBreaker ==
    \/ Tick
    \/ can_execute
    \/ record_success
    \/ record_failure

SpecBreaker == InitBreaker /\ [][NextBreaker]_vars

\* The Gateway: concurrent research and search calls on one ResearchTool
InitGateway == Init /\ max_requests >= 1 /\ window_seconds = GatewayWindow

NextGateway ==
    \/ Tick
    \/ LongWait
    \/ \E c \in Calls, u \in GatewayUsers, q \in RawQueries, m \in ModelInputs,
          n \in MaxResultsInputs : research(c, u, q, m, n)
    \/ \E c \in Calls, u \in GatewayUsers, q \in RawQueries, d \in DepthInputs,
          n \in MaxResultsInputs : search(c, u, q, d, n)
    \/ \E c \in Calls : worker_takes(c)
    \/ \E c \in Calls, o \in {"ok", "transient", "fatal"} : sync_attempt(c, o)
    \/ \E c \in Calls : resume(c)

SpecGateway == InitGateway /\ [][NextGateway]_vars

\* The Gateway's five operations, callers that call again, usage queries
\* s repeated 2^k times
RECURSIVE Doubled(_, _)
Doubled(s, k) == IF k = 0 THEN s ELSE Doubled(s \o s, k - 1)

\* a query of MaxQueryLen + 1 characters
LongQuery == SubSeq(Doubled(<<"x">>, 14), 1, MaxQueryLen + 1)
ServiceQueries == {<<"x">>, <<"x", " ">>, <<" ">>, <<>>, LongQuery}
PlainQueries == {<<"x">>, <<" ">>, <<>>}
ServiceModels == {"mini"}
ServiceDepths == {"advanced", "deep"}
ServiceMaxResults == {0, 10, MaxResultsLimit, MaxResultsLimit + 1}

\* one caller, who awaits each call before making the next
ServiceCalls == {1}

HttpUrl == HttpPrefix \o <<"a">>
HttpsUrl == HttpsPrefix \o <<"a">>
FtpUrl == <<"f", "t", "p", ":", "/", "/", "b", "a", "d">>
ServiceUrls == {<<>>, <<HttpUrl>>, <<FtpUrl>>, <<HttpsUrl, FtpUrl>>,
                SubSeq(Doubled(<<HttpUrl>>, 5), 1, MaxUrls + 1)}

InitService ==
    /\ InitState
    /\ max_requests = ServiceCap
    /\ window_seconds = GatewayWindow
    /\ threshold = 1
    /\ timeout = 1

NextService ==
    \/ Tick
    \/ \E c \in ServiceCalls, u \in GatewayUsers, q \in ServiceQueries, m \in ServiceModels,
          n \in ServiceMaxResults : research(c, u, q, m, n)
    \/ \E c \in ServiceCalls, u \in GatewayUsers, q \in ServiceQueries, d \in ServiceDepths,
          n \in ServiceMaxResults : search(c, u, q, d, n)
    \/ \E c \in ServiceCalls, u \in GatewayUsers, urls \in ServiceUrls : extract(c, u, urls)
    \/ \E c \in ServiceCalls, u \in GatewayUsers, q \in PlainQueries : get_context(c, u, q)
    \/ \E c \in ServiceCalls, u \in GatewayUsers, q \in PlainQueries : qna(c, u, q)
    \/ \E c \in ServiceCalls : worker_takes(c)
    \/ \E c \in ServiceCalls, o \in {"ok", "transient", "fatal"} : sync_attempt(c, o)
    \/ \E c \in ServiceCalls : resume(c)
    \/ \E c \in ServiceCalls : release(c)

SpecService == InitService /\ [][NextService]_vars

\* one caller of the usage tracker next to the Gateway's caller
SnapshotFetchers == {1}

\* the same within one second, with usage queries: a burst of calls with the
\* clock standing still
NextValidation ==
    \/ \E c \in ServiceCalls, u \in GatewayUsers, q \in ServiceQueries, m \in ServiceModels,
          n \in ServiceMaxResults : research(c, u, q, m, n)
    \/ \E c \in ServiceCalls, u \in GatewayUsers, q \in ServiceQueries, d \in ServiceDepths,
          n \in ServiceMaxResults : search(c, u, q, d, n)
    \/ \E c \in ServiceCalls, u \in GatewayUsers, urls \in ServiceUrls : extract(c, u, urls)
    \/ \E c \in ServiceCalls, u \in GatewayUsers, q \in PlainQueries : get_context(c, u, q)
    \/ \E c \in ServiceCalls, u \in GatewayUsers, q \in PlainQueries : qna(c, u, q)
    \/ \E c \in ServiceCalls : worker_takes(c)
    \/ \E c \in ServiceCalls, o \in {"ok", "transient", "fatal"} : sync_attempt(c, o)
    \/ \E c \in ServiceCalls : resume(c)
    \/ \E c \in ServiceCalls : release(c)
    \/ \E f \in SnapshotFetchers, force \in BOOLEAN : fetch(f, force)
    \/ \E f \in SnapshotFetchers, ok \in BOOLEAN : fetch_reply(f, ok, EmptyReply)

SpecValidation == InitService /\ [][NextValidation]_vars

\* The usage tracker: concurrent usage queries while one caller uses the
\* Gateway, within one second
UsageQueries == {<<"x">>}
UsageUrls == {<<HttpUrl>>}

NextUsage ==
    \/ \E c \in ServiceCalls, u \in GatewayUsers, q \in UsageQueries, m \in ServiceModels :
          research(c, u, q, m, DefaultMaxResults)
    \/ \E c \in ServiceCalls, u \in GatewayUsers, q \in UsageQueries : get_context(c, u, q)
    \/ \E c \in ServiceCalls : worker_takes(c)
    \/ \E c \in ServiceCalls, o \in {"ok", "fatal"} : sync_attempt(c, o)
    \/ \E c \in ServiceCalls : resume(c)
    \/ \E c \in ServiceCalls : release(c)
    \/ \E f \in Fetchers, force \in BOOLEAN : fetch(f, force)
    \/ \E f \in Fetchers : lock_granted(f)
    \/ \E f \in Fetchers, ok \in BOOLEAN : fetch_reply(f, ok, EmptyReply)

SpecUsage == InitService /\ [][NextUsage]_vars

\* The Gateway's five operations on valid requests, one caller, and one caller
\* of the usage tracker

NextSnapshot ==
    \/ Tick
    \/ \E c \in ServiceCalls, u \in GatewayUsers, q \in UsageQueries, m \in ServiceModels :
          research(c, u, q, m, DefaultMaxResults)
    \/ \E c \in ServiceCalls, u \in GatewayUsers, q \in UsageQueries, d \in DepthInputs :
          search(c, u, q, d, DefaultMaxResults)
    \/ \E c \in ServiceCalls, u \in GatewayUsers, urls \in UsageUrls : extract(c, u, urls)
    \/ \E c \in ServiceCalls, u \in GatewayUsers, q \in UsageQueries : get_context(c, u, q)
    \/ \E c \in ServiceCalls, u \in GatewayUsers, q \in UsageQueries : qna(c, u, q)
    \/ \E c \in ServiceCalls : worker_takes(c)
    \/ \E c \in ServiceCalls, o \in {"ok", "transient", "fatal"} : sync_attempt(c, o)
    \/ \E c \in ServiceCalls : resume(c)
    \/ \E c \in ServiceCalls : release(c)
    \/ \E f \in SnapshotFetchers, force \in BOOLEAN : fetch(f, force)
    \/ \E f \in SnapshotFetchers, ok \in BOOLEAN : fetch_reply(f, ok, EmptyReply)

SpecSnapshot == InitService /\ [][NextSnapshot]_vars

\* The streaming operation next to the others: two callers, within one second
StreamQueries == {<<"x">>, <<" ">>}

NextStream ==
    \/ \E c \in Calls, u \in GatewayUsers, q \in UsageQueries, m \in ServiceModels :
          research(c, u, q, m, DefaultMaxResults)
    \/ \E c \in Calls, u \in GatewayUsers, urls \in UsageUrls : extract(c, u, urls)
    \/ \E c \in Calls, u \in GatewayUsers, q \in UsageQueries : get_context(c, u, q)
    \/ \E c \in Calls, u \in GatewayUsers, q \in UsageQueries : qna(c, u, q)
    \/ \E c \in Calls, u \in GatewayUsers, q \in StreamQueries, m \in ServiceModels :
          research_stream(c, u, q, m)
    \/ \E c \in Calls : worker_takes(c)
    \/ \E c \in Calls, o \in {"ok", "fatal"} : sync_attempt(c, o)
    \/ \E c \in Calls : resume(c)
    \/ \E c \in Calls, e \in {"chunk", "end", "raise"} : pulled(c, e)
    \/ \E c \in Calls : stream_next(c)
    \/ \E c \in Calls : stream_close(c)
    \/ \E c \in Calls : release(c)

SpecStream == InitService /\ [][NextStream]_vars

\* The worker pool: one caller more than there are workers, the first of whom
\* may ask for a stream, and some of whom give up waiting
PoolCalls == 1..(MaxWorkers + 1)
PoolStreams == {1}

InitPool ==
    /\ InitTools
    /\ Registered
    /\ calls = [c \in PoolCalls |-> IdleCall]
    /\ max_requests = MaxWorkers + 1
    /\ window_seconds = GatewayWindow
    /\ threshold = 1
    /\ timeout = 1

NextPool ==
    \/ \E c \in PoolCalls, u \in GatewayUsers, q \in UsageQueries : get_context(c, u, q)
    \/ \E c \in PoolStreams, u \in GatewayUsers, q \in UsageQueries, m \in ServiceModels :
          research_stream(c, u, q, m)
    \/ \E c \in PoolCalls : worker_takes(c)
    \/ \E c \in PoolCalls : sync_attempt(c, "ok")
    \/ \E c \in PoolCalls : resume(c)
    \/ \E c \in PoolStreams : pulled(c, "end")
    \/ \E c \in PoolCalls : abandon(c)

SpecPool == InitPool /\ [][NextPool]_vars

\* The usage tracker's queries: one caller asks for the remaining credits and
\* whether an operation can be afforded, whatever the usage endpoint replies
Amounts == 0..MaxCredits
Replies == [key_usage : Amounts, key_limit : Amounts, plan_usage : Amounts,
            plan_limit : Amounts, paygo_usage : Amounts, paygo_limit : Amounts]
Counts == 0..(MaxCredits + 1)

NextCredits ==
    \/ \E f \in SnapshotFetchers, force \in BOOLEAN : fetch(f, force)
    \/ \E f \in SnapshotFetchers : get_remaining(f)
    \/ \E f \in SnapshotFetchers, count \in Counts : can_use(f, count)
    \/ \E f \in SnapshotFetchers, ok \in BOOLEAN, data \in Replies : fetch_reply(f, ok, data)

SpecCredits == InitService /\ [][NextCredits]_vars

\* The breaker's recovery: one caller of research whose await may be
\* cancelled; the pool's worker takes a submitted call, the upstream call
\* returns, the event loop resumes a coroutine whose future is done, and the
\* caller takes what its call returned
NextRecovery ==
    \/ Tick
    \/ \E c \in ServiceCalls, u \in GatewayUsers, q \in UsageQueries, m \in ServiceModels :
          research(c, u, q, m, DefaultMaxResults)
    \/ \E c \in ServiceCalls : worker_takes(c)
    \/ \E c \in ServiceCalls, o \in {"ok", "fatal"} : sync_attempt(c, o)
    \/ \E c \in ServiceCalls : resume(c)
    \/ \E c \in ServiceCalls : release(c)
    \/ \E c \in ServiceCalls : abandon(c)

SpecRecovery ==
    /\ InitService
    /\ [][NextRecovery]_vars
    /\ WF_vars(\E c \in ServiceCalls : worker_takes(c))
    /\ WF_vars(\E c \in ServiceCalls, o \in {"ok", "fatal"} : sync_attempt(c, o))
    /\ WF_vars(\E c \in ServiceCalls : resume(c))
    /\ WF_vars(\E c \in ServiceCalls : release(c))

\* The registries: the three functions called with any arguments, in any
\* order, between calls on the instances they have returned; within one second
InitRegistry ==
    /\ InitTools
    /\ calls = [c \in Calls |-> IdleCall]
    /\ registry = [rate_limiter |-> NoInstance, circuit_breaker |-> NoInstance,
                   usage_tracker |-> NoInstance]
    /\ registry_call = NoRegistryCall
    /\ api_key = "-"
    /\ max_requests = 0
    /\ window_seconds = 1
    /\ threshold = 1
    /\ timeout = 1

NextRegistry ==
    \/ \E cap \in 1..MaxCap, window \in 1..MaxWindow : get_rate_limiter(cap, window)
    \/ \E th \in 1..MaxThreshold, to \in 1..MaxTimeout : get_circuit_breaker(th, to)
    \/ \E key \in ApiKeys : get_usage_tracker(key)
    \/ \E u \in GatewayUsers : registry.rate_limiter # NoInstance /\ check(u)
    \/ registry.circuit_breaker # NoInstance /\ record_failure
    \/ \E f \in SnapshotFetchers : registry.usage_tracker # NoInstance /\ fetch(f, FALSE)
    \/ \E f \in SnapshotFetchers :
          registry.usage_tracker # NoInstance /\ fetch_reply(f, TRUE, EmptyReply)

SpecRegistry == InitRegistry /\ [][NextRegistry]_vars

\* ------------------------------------------------------------------ claims

\* C1. Limiter cap: for every key and every instant, the number of check calls
\* that returned True with admission time in (t - window_seconds, t] is at most
\* max_requests. The clock never runs backwards, so every admission inside the
\* window that ends at t has been made by the last state whose time is t, and
\* the window ending now covers every instant.
C1_LimiterCap == \A u \in Users : Len(admitted[u]) <= max_requests

C1_Witness ==
    \E u \in Users : max_requests = 2 /\ Len(admitted[u]) = 2 /\ admitted[u][1] < now

\* C2. Limiter admission and reset: check(key) returns True exactly when fewer
\* than max_requests admissions of the key lie in the trailing window: the first
\* max_requests calls of a fresh key are admitted, the next one is denied, and
\* an admission made window_seconds or more ago no longer counts.
C2_AdmissionAndReset ==
    \A u \in Users : check_ok(u) <=> (Len(admitted[u]) < max_requests)

C2_Witness ==
    \E u \in Users :
        /\ max_requests = 2
        /\ Len(requests[u]) = 2
        /\ admitted[u] = <<>>
        /\ check_ok(u)

\* C3. Breaker opening: after threshold record_failure calls with no
\* record_success in between the state is open; while open, can_execute called
\* less than timeout after last_failure returns False and leaves the state open;
\* the state becomes half-open only by a can_execute call made in the open state
\* with now - last_failure >= timeout.
C3_BreakerOpening ==
    /\ [](state = "open" /\ now - last_failure < timeout
            => ~can_execute_ok /\ can_execute_state = "open")
    /\ [][/\ (record_failure /\ streak' >= threshold => state' = "open")
          /\ (state # "half-open" /\ state' = "half-open"
                => can_execute /\ state = "open" /\ now - last_failure >= timeout)]_vars

C3_Witness ==
    /\ state = "half-open"
    /\ streak = threshold
    /\ last_call = [op |-> "can_execute", from |-> "open", ok |-> TRUE]

\* C4. Single half-open probe: once the probe has been let through (the state is
\* half-open and no outcome has been recorded), no other can_execute call
\* returns True.
C4_SingleProbe ==
    (last_call.op = "can_execute" /\ last_call.from = "half-open") => ~last_call.ok

\* C5. HalfOpen outcomes: in the half-open state record_success sets the count
\* to 0 and the state to closed; record_failure increments the count, sets
\* last_failure to now and sets the state back to open.
C5_HalfOpenOutcomes ==
    [][/\ (state = "half-open" /\ record_success
             => failures' = 0 /\ state' = "closed")
       /\ (state = "half-open" /\ record_failure
             => failures' = failures + 1 /\ last_failure' = now /\ state' = "open")]_vars

C5_Witness ==
    /\ last_call.op = "record_failure"
    /\ last_call.from = "half-open"
    /\ state = "open"
    /\ failures > threshold

\* C6. Breaker invariant: state = open implies failures >= threshold.
C6_OpenImpliesThreshold == state = "open" => failures >= threshold

C6_Witness == state = "open" /\ failures > threshold /\ last_call.from = "open"

\* C7. Breaker transition graph: the breaker state changes only along
\* closed->open, open->half-open, half-open->closed and half-open->open, also
\* when the outcomes are reported by concurrent Gateway calls.
C7_TransitionGraph ==
    [][state' # state =>
         <<state, state'>> \in {<<"closed", "open">>, <<"open", "half-open">>,
                                <<"half-open", "closed">>, <<"half-open", "open">>}]_vars

\* C8. Breaker atomicity: every failure a Gateway call reports raises the count
\* by exactly one and leaves the state open iff the count has reached the
\* threshold; every reported success resets the count; the count is the number
\* of failures reported since the last reported success, none lost, none twice.
InFlight(c) == calls[c].pc \in {"queued", "running", "done"}

C8_BreakerAtomicity ==
    /\ [](failures = streak)
    /\ [][\A c \in Calls :
            /\ (resume(c) /\ calls[c].upstream = "error"
                  => /\ failures' = failures + 1
                     /\ (state' = "open" <=> failures' >= threshold))
            /\ (resume(c) /\ calls[c].upstream = "ok" => failures' = 0)]_vars

C8_Witness ==
    /\ threshold = 1
    /\ calls[1].result = "error"
    /\ calls[2].pc = "done"
    /\ calls[2].upstream = "error"
    /\ state = "open"
    /\ now - last_failure < timeout

\* C9. Cache hit within TTL, miss after TTL: an admitted research or search call
\* whose operation and normalized request equal those of a stored entry returns
\* that result with cached = True and makes no upstream call when the entry is
\* less than 3600 s old, and is submitted for a new upstream call when the entry
\* is 3600 s old or older.
Admitted(r) == r.result \notin {"validation_error", "circuit_open", "rate_limited"}

C9_CacheTTL ==
    [][\A c \in Calls :
         /\ (calls[c].pc = "idle" /\ calls'[c].pc # "idle" /\ Admitted(calls'[c])
               => LET key == cache_key(calls'[c].op, calls'[c].req)
                      same == cache[key].present /\ cache[key].req = calls'[c].req
                  IN /\ (same /\ now - cache[key].ts < CacheTTL
                           => /\ calls'[c].pc = "returned"
                              /\ calls'[c].result = "hit"
                              /\ calls'[c].cached
                              /\ calls'[c].attempts = 0)
                     /\ (same /\ now - cache[key].ts >= CacheTTL
                           => calls'[c].pc = "queued"))
         /\ (calls[c].pc = "returned" => calls'[c] = calls[c])]_vars

C9_Witness ==
    \E c \in Calls :
        /\ calls[c].result = "hit"
        /\ calls[c].cached
        /\ LET key == cache_key(calls[c].op, calls[c].req)
           IN cache[key].present /\ now - cache[key].ts = CacheTTL - 1

\* C10. Cache under overlap: two admitted calls with the same operation and the
\* same normalized request whose executions overlap result in one upstream
\* invocation: they are never both in flight with an upstream attempt made.
C10_OneInvocation ==
    \A c1, c2 \in Calls :
        (/\ c1 # c2
         /\ InFlight(c1) /\ InFlight(c2)
         /\ calls[c1].op = calls[c2].op
         /\ calls[c1].req = calls[c2].req)
        => ~(calls[c1].attempts >= 1 /\ calls[c2].attempts >= 1)

\* C11. Cache key covers the request: a research or search call is served from
\* cache only if the entry it is served from was stored by a call with the same
\* operation and the same value of every request parameter (query, model or
\* depth, max_results, ...); requests that differ in a parameter never share an
\* entry.
C11_KeyCoversRequest ==
    [][\A c \in Calls :
         (calls[c].pc = "idle" /\ calls'[c].result = "hit")
           => LET key == cache_key(calls'[c].op, calls'[c].req)
              IN cache[key].present /\ cache[key].req = calls'[c].req]_vars

\* C12. Retry outcomes: a retry-wrapped call whose upstream fails with a
\* transient error on attempts 1 and 2 is attempted again; if the third attempt
\* succeeds the caller gets the success and the breaker receives one
\* record_success and no record_failure; if the third attempt fails too the
\* caller gets the error, the breaker receives exactly one record_failure, and
\* there is no fourth attempt. Nothing is reported to the breaker before the
\* terminal outcome.
C12_RetryOutcomes ==
    /\ [](\A c \in Calls : calls[c].attempts <= MaxAttempts)
    /\ [][\A c \in Calls :
            /\ (sync_attempt(c, "transient")
                  => /\ breaker_untouched
                     /\ (calls[c].attempts + 1 < MaxAttempts
                           => calls'[c].pc = "running" /\ calls'[c].result = "-")
                     /\ (calls[c].attempts + 1 = MaxAttempts
                           => calls'[c].pc = "done" /\ calls'[c].upstream = "error"))
            /\ (resume(c) /\ calls[c].attempts = MaxAttempts /\ calls[c].upstream = "ok"
                  => /\ calls'[c].result = "ok"
                     /\ failures' = 0 /\ streak' = 0 /\ state' = "closed"
                     /\ last_failure' = last_failure)
            /\ (resume(c) /\ calls[c].attempts = MaxAttempts /\ calls[c].upstream = "error"
                  => /\ calls'[c].result = "error"
                     /\ failures' = failures + 1 /\ streak' = streak + 1
                     /\ last_failure' = now)]_vars

C12_Witness ==
    \E c \in Calls :
        /\ calls[c].result = "error"
        /\ calls[c].attempts = MaxAttempts
        /\ failures = 1
        /\ \E b \in Calls : calls[b].result = "ok" /\ calls[b].attempts = MaxAttempts

\* C14. Retry backoff: the wait between attempt k and attempt k+1 of a retried
\* call is min(2 * 2^(k-1), 10) seconds: 2 s after the first failed attempt and
\* 4 s after the second.
C14_Backoff ==
    [][\A c \in Calls :
         (calls[c].pc = "running" /\ calls'[c].pc = "running"
            /\ calls'[c].attempts = calls[c].attempts + 1)
           => calls'[c].wake - now = Min(2 * Pow2(calls'[c].attempts - 1), 10)]_vars

\* C15. Non-transient failures are never retried: an upstream attempt of a
\* retry-wrapped call that fails with an error other than ConnectionError or
\* TimeoutError is the call's last attempt, and the caller gets the error.
C15_FatalNotRetried ==
    [][\A c \in Calls :
         /\ (sync_attempt(c, "fatal")
               => /\ calls'[c].pc = "done"
                  /\ calls'[c].upstream = "error"
                  /\ calls'[c].attempts = calls[c].attempts + 1)
         /\ (resume(c) /\ calls[c].upstream = "error"
               => /\ calls'[c].result = "error"
                  /\ calls'[c].attempts = calls[c].attempts)]_vars

C15_Witness ==
    \E c \in Calls :
        /\ calls[c].result = "error" /\ calls[c].attempts = 1
        /\ \E b \in Calls : calls[b].result = "error" /\ calls[b].attempts = 2

\* C13. Retry on every operation: for research, search, extract, qna and
\* get_context alike, an upstream attempt that fails with a transient error is
\* followed by another attempt unless it was the third; only then is a failure
\* reported.
C13_RetryEveryOperation ==
    [][\A c \in Calls :
         (sync_attempt(c, "transient") /\ calls[c].attempts + 1 < MaxAttempts)
           => calls'[c].pc = "running"]_vars

\* what the validation of a request rejects, and what a rejection leaves behind
blank(q) == \A i \in 1..Len(q) : q[i] = " "

bad_query(q) == blank(q) \/ Len(q) > 10000

bad_urls(urls) ==
    \/ Len(urls) < 1
    \/ Len(urls) > 20
    \/ \E i \in 1..Len(urls) :
          ~startswith(urls[i], HttpPrefix) /\ ~startswith(urls[i], HttpsPrefix)

Rejected(c) ==
    /\ calls'[c].pc = "returned"
    /\ calls'[c].result = "validation_error"
    /\ calls'[c].attempts = 0
    /\ UNCHANGED <<breakerVars, streak, limiterVars, admitted, cache, cached_usage,
                   trackerVars, ready>>

C17_BreakerBeforeLimiter ==
    [][\A c \in Calls :
         (/\ calls[c].pc = "idle"
          /\ calls'[c].pc # "idle"
          /\ calls'[c].result # "validation_error"
          /\ ~can_execute_ok)
           => /\ calls'[c].pc = "returned"
              /\ calls'[c].result = "circuit_open"
              /\ calls'[c].attempts = 0
              /\ requests' = requests
              /\ admitted' = admitted
              /\ ready' = ready]_vars

C17_Witness ==
    \E c \in Calls :
        /\ calls[c].result = "circuit_open"
        /\ Len(requests[calls[c].user]) = max_requests
        /\ \A i \in 1..max_requests : now - requests[calls[c].user][i] < window_seconds

\* C18 as claimed. Admission failures never touch the breaker: a call rejected
\* by the limiter leaves the breaker's state, failure count and last failure time
\* exactly as they were.
C18_RejectionLeavesBreaker ==
    [][\A c \in Calls :
         (calls[c].pc = "idle" /\ calls'[c].result = "rate_limited")
           => UNCHANGED <<state, failures, last_failure>>]_vars

\* C18 as amended. A call rejected by the limiter reports nothing to the
\* breaker: the failure count and the last failure time are unchanged, and the
\* state is unchanged except that can_execute, asked before the limiter, has
\* moved an open breaker whose timeout has elapsed to half-open.
C18_RejectionReportsNothing ==
    [][\A c \in Calls :
         (calls[c].pc = "idle" /\ calls'[c].result = "rate_limited")
           => /\ UNCHANGED <<failures, last_failure, streak>>
              /\ \/ state' = state
                 \/ /\ state = "open"
                    /\ now - last_failure >= timeout
                    /\ state' = "half-open"]_vars

C18_Witness ==
    \E c \in Calls :
        /\ calls[c].result = "rate_limited"
        /\ state = "half-open"
        /\ failures >= threshold

\* C19 as claimed. Cache hit is update-free: a research or search call served
\* from cache leaves the breaker's state and failure count and the usage
\* snapshot as they were.
C19_HitUpdateFree ==
    [][\A c \in Calls :
         (calls[c].pc = "idle" /\ calls'[c].result = "hit")
           => UNCHANGED <<state, failures, cached_usage>>]_vars

\* C19 as amended. A research or search call served from cache reports nothing
\* to the breaker and does not touch the usage snapshot: the failure count, the
\* last failure time and the snapshot are unchanged, and the state is unchanged
\* except that can_execute, asked before the cache is looked up, has moved an
\* open breaker whose timeout has elapsed to half-open.
C19_HitReportsNothing ==
    [][\A c \in Calls :
         (calls[c].pc = "idle" /\ calls'[c].result = "hit")
           => /\ UNCHANGED <<failures, last_failure, streak, cached_usage>>
              /\ calls'[c].cached
              /\ \/ state' = state
                 \/ /\ state = "open"
                    /\ now - last_failure >= timeout
                    /\ state' = "half-open"]_vars

C19_Witness ==
    \E c \in Calls :
        /\ calls[c].result = "hit"
        /\ state = "half-open"
        /\ failures >= threshold
        /\ cached_usage # NoSnapshot

\* C20. Success effects: an operation that returns the result of an upstream
\* call has, in the step that returns it, reported one record_success and no
\* record_failure to the breaker (count 0, state closed, last failure time
\* untouched), cleared the usage snapshot, and, for research and search only,
\* stored the result under the request's cache key.
C20_SuccessEffects ==
    [][\A c \in Calls :
         (calls[c].pc # "returned" /\ calls'[c].result = "ok")
           => /\ failures' = 0 /\ streak' = 0 /\ state' = "closed"
              /\ last_failure' = last_failure
              /\ cached_usage' = NoSnapshot
              /\ IF calls'[c].op \in {"research", "search"}
                 THEN LET key == <<calls'[c].op, calls'[c].req.query,
                                    calls'[c].req.variant>>
                      IN /\ cache'[key] = [present |-> TRUE, ts |-> now,
                                            req |-> calls'[c].req]
                         /\ \A k \in Keys \ {key} : cache'[k] = cache[k]
                 ELSE cache' = cache]_vars

C20_Witness ==
    \E c \in Calls :
        /\ calls[c].result = "ok"
        /\ calls[c].op \in {"extract", "get_context", "qna"}
        /\ state = "closed" /\ failures = 0
        /\ last_failure > 0
        /\ cached_usage = NoSnapshot
        /\ \E k \in Keys : cache[k].present

\* C23. Usage single-flight: at most one usage request is in flight at any
\* time, and a fetch called while another holds the lock or waits for it waits
\* in turn instead of sending a request.
C23_SingleFlight ==
    /\ [](Cardinality({f \in Fetchers : fetchers[f].pc = "requesting"}) <= 1)
    /\ [][\A f \in Fetchers :
            (/\ fetchers[f].pc \in {"idle", "returned", "raised"}
             /\ fetchers'[f].pc # fetchers[f].pc
             /\ \E g \in Fetchers : fetchers[g].pc \in {"requesting", "waiting"})
              => fetchers'[f].pc = "waiting"]_vars

C23_Witness ==
    \E f, g \in Fetchers :
        /\ fetchers[f].pc = "requesting"
        /\ fetchers[g].pc = "waiting"
        /\ fetchers[g].force

\* a fetch call gets past the lock in this step
Locked(f) ==
    /\ fetchers[f].pc \in {"idle", "returned", "raised", "waiting"}
    /\ fetchers'[f].pc \in {"returned", "requesting"}
    /\ fetchers[f].pc = "returned" => fetchers'[f] # fetchers[f]

\* C24. Usage snapshot caching: a fetch that is not forced and finds a snapshot
\* returns that snapshot and sends no request; a forced fetch, or one that
\* finds no snapshot, sends one request, and its reply replaces the stored
\* snapshot by a new object, which the call returns; as long as no fetch was
\* forced or failed and clear_cache was not called, every fetch that has
\* returned has returned the one snapshot of the first request.
C24_SnapshotCaching ==
    /\ [](usage_clean =>
            /\ cached_usage \in {NoSnapshot, 1}
            /\ \A f \in Fetchers :
                 fetchers[f].pc = "returned"
                   => fetchers[f].result = 1 /\ cached_usage = 1)
    /\ [][\A f \in Fetchers :
            /\ Locked(f) =>
                 IF cached_usage # NoSnapshot /\ ~fetchers'[f].force
                 THEN /\ fetchers'[f].pc = "returned"
                      /\ fetchers'[f].result = cached_usage
                      /\ cached_usage' = cached_usage
                 ELSE /\ fetchers'[f].pc = "requesting"
                      /\ cached_usage' = cached_usage
            /\ (fetchers[f].pc = "requesting" /\ fetchers'[f].pc = "returned")
                 => /\ cached_usage' = fetchers'[f].result
                    /\ cached_usage' \notin {NoSnapshot, cached_usage}
                    /\ \A g \in Fetchers : fetchers[g].result # cached_usage']_vars

C24_Witness ==
    /\ usage_clean
    /\ \A f \in Fetchers : fetchers[f].pc = "returned" /\ fetchers[f].result = 1
    /\ cached_usage = 1

\* C25. Usage invalidation freshness: a fetch that is not forced and is called
\* after a Gateway operation completed successfully does not return a snapshot
\* whose request was already in flight when the operation completed.
C25_FreshAfterSuccess ==
    [][\A f \in Fetchers :
         (/\ fetchers[f].pc \in {"idle", "returned", "raised"}
          /\ fetchers'[f] # fetchers[f]
          /\ fetchers'[f].pc = "returned")
           => ~usage_stale]_vars

\* the calls whose blocking upstream call is executing: on a worker, or in
\* the coroutine that iterates a stream
Executing == {c \in DOMAIN calls : calls[c].pc \in {"running", "pulling"}}

\* C26. Bounded worker pool: at most MaxWorkers (4) blocking upstream calls
\* are executing at the same time, and a submitted call does not start while
\* that many are executing.
C26_BoundedPool ==
    /\ [](Cardinality(Executing) <= MaxWorkers)
    /\ [][\A c \in DOMAIN calls :
            (calls[c].pc = "queued" /\ calls'[c].pc = "running")
              => Cardinality(Executing) < MaxWorkers]_vars

\* C27. No blocking on the scheduler thread: no upstream call, the opening of
\* a stream and the pulling of a chunk included, executes in a coroutine on the
\* event loop's thread.
C27_NoBlockingOnLoop == \A c \in DOMAIN calls : calls[c].pc # "pulling"

\* C21. Failure effects: when the upstream call of an admitted non-streaming
\* operation has failed, the step that hands the error to the caller reports one
\* record_failure and no record_success to the breaker (count up by one, last
\* failure time now, state open once the threshold is reached), raises the
\* domain error, leaves the cache map and the usage snapshot as they were and
\* returns no cached result.
C21_FailureEffects ==
    [][\A c \in Calls :
         (/\ calls[c].pc = "done"
          /\ calls[c].upstream = "error"
          /\ calls[c].op \in AllOps
          /\ calls'[c].pc = "returned")
           => /\ calls'[c].result = "error"
              /\ ~calls'[c].cached
              /\ calls'[c].outcomes = 1
              /\ failures' = failures + 1
              /\ streak' = streak + 1
              /\ last_failure' = now
              /\ state' = IF failures + 1 >= threshold THEN "open" ELSE state
              /\ cache' = cache
              /\ cached_usage' = cached_usage]_vars

C21_Witness ==
    \E c \in Calls :
        /\ calls[c].result = "error"
        /\ calls[c].op = "research"
        /\ calls[c].attempts = 2
        /\ state = "open"
        /\ cached_usage # NoSnapshot
        /\ \A k \in Keys : ~cache[k].present

\* C22. Streaming breaker outcome: every admitted research_stream call that
\* has ended has reported exactly one outcome to the breaker, and no step of a
\* research_stream call reads or writes the result cache.
C22_StreamOutcomeOnce ==
    /\ [](\A c \in Calls :
            (/\ calls[c].op = "research_stream"
             /\ calls[c].pc = "returned"
             /\ calls[c].result \notin {"circuit_open", "rate_limited"})
              => calls[c].outcomes = 1)
    /\ [][\A c \in Calls :
            (calls'[c].op = "research_stream" /\ calls'[c] # calls[c])
              => cache' = cache /\ calls'[c].result # "hit"]_vars

\* the operations that do not use the result cache
Uncached == {"extract", "qna", "get_context", "research_stream"}

\* C29. Uncached operations bypass the cache: no step of an extract, qna,
\* get_context or research_stream call changes the cache map or returns a
\* cached result; every admitted call is submitted for an upstream invocation
\* of its own, and none returns a result or an upstream error without one.
C29_UncachedBypass ==
    /\ [](\A c \in Calls :
            (calls[c].op \in Uncached /\ calls[c].result \in {"ok", "error", "closed"})
              => calls[c].attempts >= 1)
    /\ [][\A c \in Calls :
            (calls'[c].op \in Uncached /\ calls'[c] # calls[c])
              => /\ cache' = cache
                 /\ calls'[c].result # "hit"
                 /\ ~calls'[c].cached
                 /\ (calls[c].pc = "idle"
                       => \/ calls'[c].result \in {"circuit_open", "rate_limited"}
                          \/ calls'[c].pc = "queued")]_vars

C29_Witness ==
    /\ \A c \in Calls :
          /\ calls[c].op = "research_stream"
          /\ calls[c].req = make_request(<<"x">>, "mini", DefaultMaxResults)
          /\ calls[c].result = "ok"
          /\ calls[c].attempts = 1
    /\ cache[<<"research", <<"x">>, "mini">>].present

\* C30. Abandoned caller: cancelling the caller of a call that a worker is
\* running leaves the call running; from then on the call changes only by
\* further upstream attempts, until the worker is through, and no queued call
\* is taken while it and three others occupy the workers.
C30_AbandonedRunsOn ==
    [][\A c \in DOMAIN calls :
         /\ (calls[c].pc = "running" /\ ~calls[c].abandoned /\ calls'[c].abandoned)
              => /\ calls'[c].pc = "running"
                 /\ calls'[c].attempts = calls[c].attempts
         /\ (calls[c].pc = "running" /\ calls[c].abandoned /\ calls'[c] # calls[c])
              => /\ calls'[c].attempts = calls[c].attempts + 1
                 /\ calls'[c].pc \in {"running", "returned"}
                 /\ calls'[c].pc = "returned" => calls'[c].upstream \in {"ok", "error"}
         /\ (calls[c].pc = "queued" /\ calls'[c].pc = "running")
              => Cardinality({b \in DOMAIN calls : calls[b].pc = "running"}) < MaxWorkers
      ]_vars

C30_Witness ==
    /\ \E c \in DOMAIN calls : calls[c].pc = "running" /\ calls[c].abandoned
    /\ Cardinality({b \in DOMAIN calls : calls[b].pc = "running"}) = MaxWorkers
    /\ \E c \in DOMAIN calls : calls[c].pc = "queued"

\* C28. One lock at a time, no deadlock: no call has held two of the limiter's,
\* the breaker's and the usage tracker's locks at once; the limiter's and the
\* breaker's lock are never left locked; the usage tracker's lock is locked
\* exactly while a usage request is in flight, so that it is released when the
\* request fails as well; and whenever a fetch waits for the lock, its holder
\* awaits a reply or the lock is free for the first of those waiting.
C28_OneLockNoDeadlock ==
    /\ lock_log.peak <= 1
    /\ lock_log.left = {}
    /\ usage_lock <=> \E f \in Fetchers : fetchers[f].pc = "requesting"
    /\ \A f \in Fetchers :
          fetchers[f].pc = "waiting"
            <=> \E i \in 1..Len(usage_waiters) : usage_waiters[i] = f
    /\ usage_waiters # <<>>
         => \/ \E f \in Fetchers : fetchers[f].pc = "requesting"
            \/ ~usage_lock /\ fetchers[Head(usage_waiters)].pc = "waiting"

C28_Witness ==
    /\ lock_log.peak = 1
    /\ \E f \in Fetchers : fetchers[f].pc = "raised"
    /\ \E f \in Fetchers : fetchers[f].pc = "waiting"
    /\ ~usage_lock
    /\ \E c \in Calls : calls[c].result = "error"

\* C31. Limiter remaining: in every reachable state remaining(key) would return
\* max(0, max_requests - the number of admissions of the key inside the trailing
\* window), which is never negative and is positive exactly when check(key)
\* would return True; a remaining call returns that value, admits nothing and
\* adds no timestamp to the key's list.
C31_LimiterRemaining ==
    /\ [](\A u \in Users :
            /\ remaining_value(u) = Max(0, max_requests - Len(admitted[u]))
            /\ remaining_value(u) >= 0
            /\ (remaining_value(u) > 0) <=> check_ok(u))
    /\ [][now' = now /\ limiter_call'.op = "remaining"
          => LET u == limiter_call'.user
             IN /\ limiter_call'.value = Max(0, max_requests - Len(admitted[u]))
                /\ admitted' = admitted
                /\ Len(requests'[u]) <= Len(requests[u])
                /\ \A i \in 1..Len(requests'[u]) :
                      \E j \in 1..Len(requests[u]) : requests'[u][i] = requests[u][j]]_vars

\* remaining was asked for a key whose budget is spent, after older timestamps
\* of the key have expired
C31_Witness ==
    /\ limiter_call.op = "remaining"
    /\ limiter_call.value = 0
    /\ max_requests >= 1
    /\ Len(requests[limiter_call.user]) = max_requests
    /\ now >= window_seconds

\* C32. Usage remaining arithmetic: whatever snapshot fetch returns, get_remaining
\* returns max(0, limit - usage) for the key, the plan and the pay-as-you-go
\* pair, none of them negative also when the usage exceeds the limit, and
\* can_use(operation, count) returns True exactly when the key's remaining
\* credits are at least count.
C32_RemainingArithmetic ==
    \A f \in DOMAIN fetchers :
        fetchers[f].pc = "returned" =>
            LET d == queries[f].snapshot
                r == queries[f].remaining
                key == IF d.key_limit >= d.key_usage THEN d.key_limit - d.key_usage ELSE 0
            IN /\ queries[f].want = "get_remaining" =>
                    /\ r.key_remaining = key
                    /\ r.plan_remaining = (IF d.plan_limit >= d.plan_usage
                                           THEN d.plan_limit - d.plan_usage ELSE 0)
                    /\ r.paygo_remaining = (IF d.paygo_limit >= d.paygo_usage
                                            THEN d.paygo_limit - d.paygo_usage ELSE 0)
                    /\ r.key_remaining >= 0
                    /\ r.plan_remaining >= 0
                    /\ r.paygo_remaining >= 0
               /\ queries[f].want = "can_use" => (queries[f].allowed <=> key >= queries[f].count)

\* get_remaining has answered from a snapshot whose key usage exceeds its limit
\* while the plan has credits left
C32_Witness ==
    \E f \in DOMAIN fetchers :
        /\ fetchers[f].pc = "returned"
        /\ queries[f].want = "get_remaining"
        /\ queries[f].snapshot.key_usage > queries[f].snapshot.key_limit
        /\ queries[f].remaining.key_remaining = 0
        /\ queries[f].remaining.plan_remaining = MaxCredits

\* C33. Admission precedes the cache: a research or search call answered from
\* the cache has passed the breaker and the limiter and has spent one slot of
\* its caller at the time of the call; a call made while the breaker is open
\* within its timeout, or while the caller's budget is spent, is rejected and is
\* not given a cached result, whatever the cache holds.
C33_AdmissionBeforeCache ==
    [][\A c \in DOMAIN calls :
          (calls[c].pc = "idle" /\ calls'[c].pc = "returned" /\ calls'[c].op \in Ops)
          => LET u == calls'[c].user
                 breaker_rejects == state = "open" /\ now - last_failure < timeout
                 limiter_rejects == Len(admitted[u]) >= max_requests
             IN /\ calls'[c].result = "hit"
                   => /\ ~breaker_rejects
                      /\ ~limiter_rejects
                      /\ admitted'[u] = Append(admitted[u], now)
                      /\ Len(requests'[u]) = Len(admitted[u]) + 1
                /\ (breaker_rejects \/ limiter_rejects)
                   => /\ calls'[c].result \in {"circuit_open", "rate_limited"}
                      /\ ~calls'[c].cached]_vars

\* a research call was rejected by the limiter while the cache holds a valid
\* result for research and the breaker is closed with no failure counted
C33_Witness ==
    \E c \in DOMAIN calls :
        /\ calls[c].pc = "returned"
        /\ calls[c].op = "research"
        /\ calls[c].result = "rate_limited"
        /\ \E k \in Keys : k[1] = "research" /\ get_cached(k)
        /\ Len(requests[calls[c].user]) = max_requests
        /\ failures = 0
        /\ streak = 0

\* C34. Failure count tracks the state: in every reachable state of a breaker
\* with threshold >= 1, closed implies failures < threshold and half-open
\* implies failures >= threshold.
C34_CountTracksState ==
    threshold >= 1 =>
        /\ state = "closed" => failures < threshold
        /\ state = "half-open" => failures >= threshold

\* half-open was entered by can_execute with more failures counted than the
\* threshold: a failure was reported while the breaker was already open
C34_Witness ==
    /\ state = "half-open"
    /\ last_call.op = "can_execute"
    /\ last_call.from = "open"
    /\ failures > threshold

\* C35. Breaker recovery: an open breaker whose timeout has passed since the
\* last failure lets the next call through, and once the upstream invocation of
\* a call admitted then has succeeded the breaker eventually is closed with
\* failures = 0.
C35_BreakerRecovery ==
    /\ [][\A c \in ServiceCalls :
            (calls[c].pc = "idle" /\ calls'[c].pc # "idle" /\ calls'[c].op = "research"
             /\ state = "open" /\ now - last_failure >= timeout)
            => calls'[c].result # "circuit_open" /\ state' = "half-open"]_vars
    /\ \A c \in ServiceCalls :
          (state = "half-open" /\ calls[c].op = "research" /\ calls[c].upstream = "ok")
          ~> (state = "closed" /\ failures = 0)

\* C36. Open period restarts on late failures: every record_failure call sets
\* last_failure to the time it is made at, also while the breaker is open, and
\* can_execute on an open breaker returns True exactly when timeout seconds
\* have passed since last_failure, the most recent report, however long ago
\* the breaker was opened.
C36_OpenPeriodRestarts ==
    [][now' = now
       => /\ last_call'.op = "record_failure"
             => last_failure' = now /\ failures' = failures + 1
          /\ (last_call'.op = "can_execute" /\ state = "open")
             => /\ last_call'.ok <=> (now - last_failure >= timeout)
                /\ state' = IF last_call'.ok THEN "half-open" ELSE "open"]_vars

\* can_execute returned False although timeout seconds have passed since the
\* breaker was opened: a failure was reported later, while it was open
C36_Witness ==
    /\ last_call.op = "can_execute"
    /\ ~last_call.ok
    /\ state = "open"
    /\ now - opened_at >= timeout
    /\ last_failure > opened_at

\* C37. Denied checks are not recorded: a check call that returns False leaves
\* in the key's list only timestamps that were there, admissions all of them;
\* at every later instant of the window the timestamps counted against the key
\* are those of its admissions, so the denied attempt does not postpone the
\* key's next admission.
C37_DeniedNotRecorded ==
    [][(now' = now /\ limiter_call'.op = "check" /\ ~limiter_call'.ok)
       => LET u == limiter_call'.user
              counted(ts, t) == Len(SelectSeq(ts, LAMBDA x : x > t - window_seconds))
          IN /\ admitted' = admitted
             /\ Len(requests'[u]) <= Len(requests[u])
             /\ \A i \in 1..Len(requests'[u]) :
                   \E j \in 1..Len(requests[u]) : requests'[u][i] = requests[u][j]
             /\ \A t \in now..(now + window_seconds) :
                   counted(requests'[u], t) = counted(admitted[u], t)]_vars

\* a check was denied for a key whose budget is spent, one second or more
\* after the key's oldest admission inside the window
C37_Witness ==
    /\ limiter_call.op = "check"
    /\ ~limiter_call.ok
    /\ max_requests >= 1
    /\ Len(requests[limiter_call.user]) = max_requests
    /\ requests[limiter_call.user][1] < now

\* C38. Per-key isolation: a check or remaining call for one key leaves the
\* timestamps and the admissions of every other key as they were, and with
\* them what check and remaining would return for that key.
C38_PerKeyIsolation ==
    [][(now' = now /\ limiter_call'.op \in {"check", "remaining"})
       => \A k \in Users \ {limiter_call'.user} :
             /\ requests'[k] = requests[k]
             /\ admitted'[k] = admitted[k]
             /\ check_ok(k)' = check_ok(k)
             /\ remaining_value(k)' = remaining_value(k)]_vars

\* one caller was denied while the other, with timestamps of its own, would
\* still be admitted
C38_Witness ==
    /\ limiter_call.op = "check"
    /\ ~limiter_call.ok
    /\ limiter_call.user = "u1"
    /\ requests["u2"] # <<>>
    /\ check_ok("u2")
    /\ remaining_value("u2") > remaining_value("u1")

\* C39. Failed usage fetch: when the usage request fails, fetch raises, leaves
\* the stored snapshot and its fields as they were and releases the lock; a
\* fetch(force=False) made by the same caller after the failure, with a snapshot
\* stored and the lock free, returns that snapshot without a request.
C39_FailedFetch ==
    [][\A f \in Fetchers :
          /\ (fetchers[f].pc = "requesting" /\ fetchers'[f].pc = "raised")
             => /\ cached_usage' = cached_usage
                /\ usage_data' = usage_data
                /\ ~usage_lock'
                /\ usage_waiters' = usage_waiters
          /\ (fetchers[f].pc = "raised" /\ fetchers'[f].pc # "raised"
              /\ ~fetchers'[f].force /\ cached_usage # NoSnapshot
              /\ ~usage_lock /\ usage_waiters = <<>>)
             => /\ fetchers'[f].pc = "returned"
                /\ fetchers'[f].result = cached_usage
                /\ cached_usage' = cached_usage
                /\ ~usage_lock']_vars

\* a forced fetch has failed while a snapshot was stored: the snapshot is still
\* there and the lock is free
C39_Witness ==
    \E f \in Fetchers :
        /\ fetchers[f].pc = "raised"
        /\ fetchers[f].force
        /\ cached_usage # NoSnapshot
        /\ ~usage_lock

\* C40. Registry idempotence: each registry constructs one instance, on its
\* first call and with that call's arguments; every later call returns that
\* instance and leaves its configuration and its state as they are, whatever
\* arguments it is given.
C40_RegistryIdempotence ==
    /\ [](\A fn \in DOMAIN registry : registry[fn] \in {NoInstance, FirstInstance})
    /\ [][(registry_call' # registry_call \/ registry' # registry)
          => LET fn == registry_call'.fn
                 args == registry_call'.args
             IN IF registry[fn] = NoInstance
                THEN /\ registry'[fn] = FirstInstance
                     /\ registry_call'.instance = FirstInstance
                     /\ fn = "rate_limiter" => <<max_requests', window_seconds'>> = args
                     /\ fn = "circuit_breaker" => <<threshold', timeout'>> = args
                     /\ fn = "usage_tracker" => <<api_key'>> = args
                ELSE /\ registry_call'.instance = registry[fn]
                     /\ UNCHANGED <<registry, api_key, limiterVars, breakerVars, admitted,
                                    streak, opened_at, gatewayVars>>]_vars

\* get_rate_limiter was called again with other arguments after the limiter
\* had admitted a request and the breaker had counted a failure
C40_Witness ==
    /\ registry_call.fn = "rate_limiter"
    /\ registry_call.args # <<max_requests, window_seconds>>
    /\ registry_call.instance = registry.rate_limiter
    /\ requests["u1"] # <<>>
    /\ failures > 0
    /\ cached_usage # NoSnapshot

====
